---------------------------- MODULE Spec2Model ----------------------------
(***************************************************************************)
(* The SAM4L PDCA DMA driver (chips/sam4l/src/dma.rs): a bank of channel   *)
(* engines sharing the counter NUM_ENABLED and two clock domains.          *)
(*                                                                         *)
(* Every driver function is an operator from a machine record to a machine *)
(* record, built from one primitive per statement in the order of the      *)
(* source.  Each primitive that touches hardware, the clock manager or the *)
(* client appends an event to the machine's trace, with the clock state    *)
(* and the channel's interrupt mask at that instant, so that the order of  *)
(* effects inside one call is observable: op(Cur, c).trace is what a call  *)
(* of op on channel c does from the current state, op(Cur, c).ret what it  *)
(* returns.                                                                *)
(*                                                                         *)
(* Spec runs complete calls one after another; SpecTwoBuffers is Spec with *)
(* callers that own two non-empty buffers; SpecPreempt runs enable and     *)
(* disable statement by statement, with interrupt-context calls between    *)
(* any two statements.                                                     *)
(*                                                                         *)
(* An Option is a sequence of length at most one: <<>> is None, <<x>> is   *)
(* Some(x).  NUM_ENABLED is a 32-bit word held as the integer with the     *)
(* same two's-complement bit pattern: the wrapped value 0xFFFFFFFF is -1.  *)
(***************************************************************************)
EXTENDS Integers, Sequences, FiniteSets, TLC

\* Channels of the model (the chip has 16, DMAChannelNum).
NumChannels == 2
\* Buffers the callers of the driver own at start.
NumBuffers == 2
\* Largest value the hardware is observed to leave in the live counter.
MaxTcr == 1

Channels == 0 .. (NumChannels - 1)
\* The channel that callers initialize, program and start transfers on; the
\* other channels are enabled, disabled, aborted and interrupted only.
XferChannels == {0}
Buffers == 1 .. NumBuffers
\* Callers that own two buffers, neither of them empty.
TwoBuffers == {1, NumBuffers + 1}

\* Byte length of each buffer (buf.len()): buffer 1 holds more bytes than the
\* 16-bit count field can express, buffer 2 is empty, the others are short.
BufLen(b) == IF b = 1 THEN 65540 ELSE IF b = 2 THEN 0 ELSE 5

\* Address of a buffer's first byte, as written to the reload register.
BufAddr(b) == 4096 * b

\* Requested element counts offered to prepare_transfer.
ReqLens == {2, 70000}

\* Peripherals offered to prepare_transfer: SPI_RX and SPI_TX.
SPI_RX == 4
SPI_TX == 22
Peripherals == {SPI_RX, SPI_TX}

\* DMAWidth and its discriminants.
Widths == {"Width8Bit", "Width16Bit", "Width32Bit"}
WidthCode(w) == IF w = "Width8Bit" THEN 0 ELSE IF w = "Width16Bit" THEN 1 ELSE 2

\* The element size prepare_transfer divides by.
ElemSize(w) == IF w = "Width8Bit" THEN 1 ELSE IF w = "Width16Bit" THEN 2 ELSE 4

\* The clients that may be registered.
Clients == {"client"}

\* Interrupt register bits.
TERR == "TERR"
TRC == "TRC"
RCZ == "RCZ"
AllSources == {TERR, TRC, RCZ}

\* The two clock domains gating the controller.
HSB_PDCA == "HSB_PDCA"
PBB_PDCA == "PBB_PDCA"
BothClocks == {HSB_PDCA, PBB_PDCA}

\* TransferCounter::TCV is 16 bits wide at offset 0.
TCV_BITS == 16
TCV_val(v) == v % (2 ^ TCV_BITS)

Min(a, b) == IF a < b THEN a ELSE b

\* The content of an Option, as a set.
Some(o) == {o[i] : i \in 1 .. Len(o)}

VARIABLES
    client,       \* per channel: Option of the registered client
    width,        \* per channel: configured DMAWidth
    enabled,      \* per channel: software enabled flag
    buffer,       \* per channel: Option of the held buffer (TakeCell)
    NUM_ENABLED,  \* the shared counter
    clock,        \* set of clock domains that are on
    mr,           \* per channel: mode register (SIZE field)
    psr,          \* per channel: peripheral select register
    marr,         \* per channel: memory address reload register
    tcrr,         \* per channel: transfer counter reload register
    tcr,          \* per channel: live transfer counter
    cr,           \* per channel: Option of the last command written to CR
    imr,          \* per channel: set of unmasked interrupt sources
    panicked,     \* the kernel has panicked
    owned,        \* buffers the callers hold and may hand to the driver
    lastPid,      \* per channel: Option of the pid of the latest prepare_transfer
    fresh,        \* per channel: Option of the buffer a prepare_transfer was given,
                  \* while no other call on the channel has followed it
    reported,     \* per channel: a handle_interrupt dispatched while transfer
                  \* complete was unmasked has called the client since the
                  \* latest prepare_transfer
    frame         \* the enable or disable call in progress in normal context:
                  \* its position pc, its channel ch, its local num_enabled,
                  \* and whether an interrupt has run inside it

vars == <<client, width, enabled, buffer, NUM_ENABLED, clock, mr, psr, marr,
          tcrr, tcr, cr, imr, panicked, owned, lastPid, fresh, reported, frame>>

\* The machine the next call starts from: the current state, with nothing
\* returned and an empty trace.
Cur ==
    [client |-> client, width |-> width, enabled |-> enabled, buffer |-> buffer,
     NUM_ENABLED |-> NUM_ENABLED, clock |-> clock, mr |-> mr, psr |-> psr,
     marr |-> marr, tcrr |-> tcrr, tcr |-> tcr, cr |-> cr, imr |-> imr,
     panicked |-> panicked, ret |-> <<>>, trace |-> <<>>]

Event(m, kind, c, arg) ==
    [m EXCEPT !.trace = Append(@, [kind |-> kind, ch |-> c, arg |-> arg,
                                   clk |-> m.clock, imr |-> m.imr[c]])]

-----------------------------------------------------------------------------
\* The clock manager (crate::pm), as the driver uses it.

enable_clock(m, c, clk) ==
    [Event(m, "enable_clock", c, clk) EXCEPT !.clock = @ \cup {clk}]

disable_clock(m, c, clk) ==
    [Event(m, "disable_clock", c, clk) EXCEPT !.clock = @ \ {clk}]

-----------------------------------------------------------------------------
\* One primitive per kind of statement.

fetch_add(m, n) == [m EXCEPT !.NUM_ENABLED = @ + n]

fetch_sub(m, n) == [m EXCEPT !.NUM_ENABLED = @ - n]

idr_write(m, c, bits) ==
    [Event(m, "idr", c, bits) EXCEPT !.imr[c] = @ \ bits]

ier_write(m, c, bits) ==
    [Event(m, "ier", c, bits) EXCEPT !.imr[c] = @ \cup bits]

cr_write(m, c, cmd) ==
    [Event(m, "cr", c, cmd) EXCEPT !.cr[c] = <<cmd>>]

mr_write(m, c, v) ==
    [Event(m, "mr", c, v) EXCEPT !.mr[c] = v]

psr_set(m, c, pid) ==
    [Event(m, "psr_set", c, pid) EXCEPT !.psr[c] = pid]

psr_get(m, c) == Event(m, "psr_get", c, m.psr[c])

marr_write(m, c, v) ==
    [Event(m, "marr", c, v) EXCEPT !.marr[c] = v]

tcrr_write(m, c, v) ==
    [Event(m, "tcrr", c, v) EXCEPT !.tcrr[c] = v]

tcr_write(m, c, v) ==
    [Event(m, "tcr", c, v) EXCEPT !.tcr[c] = v]

set_enabled(m, c, b) == [m EXCEPT !.enabled[c] = b]

transfer_done(m, c, pid) == Event(m, "transfer_done", c, pid)

-----------------------------------------------------------------------------
\* The driver's functions.

initialize(m, c, cl, w) ==
    [m EXCEPT !.client[c] = <<cl>>, !.width[c] = w]

\* enable() without the test of the enabled flag.
enable_unguarded(m, c) ==
    LET m1 == enable_clock(m, c, HSB_PDCA)
        m2 == enable_clock(m1, c, PBB_PDCA)
        m3 == fetch_add(m2, 1)
        m4 == idr_write(m3, c, AllSources)
    IN  set_enabled(m4, c, TRUE)

\* enable() without the write to the interrupt disable register.
enable_keeps_mask(m, c) ==
    LET m1 == enable_clock(m, c, HSB_PDCA)
        m2 == enable_clock(m1, c, PBB_PDCA)
    IN  IF ~m2.enabled[c]
        THEN LET m3 == fetch_add(m2, 1)
             IN  set_enabled(m3, c, TRUE)
        ELSE m2

enable(m, c) ==
    LET m1 == enable_clock(m, c, HSB_PDCA)
        m2 == enable_clock(m1, c, PBB_PDCA)
    IN  IF ~m2.enabled[c]
        THEN LET m3 == fetch_add(m2, 1)
                 m4 == idr_write(m3, c, AllSources)
             IN  set_enabled(m4, c, TRUE)
        ELSE m2

\* disable() without the test of the enabled flag.
disable_unguarded(m, c) ==
    LET num_enabled == m.NUM_ENABLED
        m1 == fetch_sub(m, 1)
        m2 == IF num_enabled = 1
              THEN disable_clock(disable_clock(m1, c, HSB_PDCA), c, PBB_PDCA)
              ELSE m1
        m3 == cr_write(m2, c, "TDIS")
    IN  set_enabled(m3, c, FALSE)

\* disable() comparing the counter's new value, not the one fetch_sub returned.
disable_new_value(m, c) ==
    IF m.enabled[c]
    THEN LET m1 == fetch_sub(m, 1)
             num_enabled == m1.NUM_ENABLED
             m2 == IF num_enabled = 1
                   THEN disable_clock(disable_clock(m1, c, HSB_PDCA), c, PBB_PDCA)
                   ELSE m1
             m3 == cr_write(m2, c, "TDIS")
         IN  set_enabled(m3, c, FALSE)
    ELSE m

\* disable() issuing the transfer-disable command whatever the flag says.
disable_always_tdis(m, c) ==
    IF m.enabled[c]
    THEN LET num_enabled == m.NUM_ENABLED
             m1 == fetch_sub(m, 1)
             m2 == IF num_enabled = 1
                   THEN disable_clock(disable_clock(m1, c, HSB_PDCA), c, PBB_PDCA)
                   ELSE m1
             m3 == cr_write(m2, c, "TDIS")
         IN  set_enabled(m3, c, FALSE)
    ELSE cr_write(m, c, "TDIS")

disable(m, c) ==
    IF m.enabled[c]
    THEN LET num_enabled == m.NUM_ENABLED
             m1 == fetch_sub(m, 1)
             m2 == IF num_enabled = 1
                   THEN disable_clock(disable_clock(m1, c, HSB_PDCA), c, PBB_PDCA)
                   ELSE m1
             m3 == cr_write(m2, c, "TDIS")
         IN  set_enabled(m3, c, FALSE)
    ELSE m

is_enabled(m, c) == [m EXCEPT !.ret = <<m.enabled[c]>>]

\* handle_interrupt() reporting the mode register's value.
handle_interrupt_reads_mr(m, c) ==
    LET m1 == idr_write(m, c, AllSources)
        m2 == psr_get(m1, c)
        channel == m1.mr[c]
    IN  IF m2.client[c] # <<>> THEN transfer_done(m2, c, channel) ELSE m2

\* handle_interrupt() masking the sources after the callback has run.
handle_interrupt_masks_last(m, c) ==
    LET m1 == psr_get(m, c)
        channel == m.psr[c]
        m2 == IF m1.client[c] # <<>> THEN transfer_done(m1, c, channel) ELSE m1
    IN  idr_write(m2, c, AllSources)

\* handle_interrupt() releasing the buffer, as the comment in
\* prepare_transfer announces.
handle_interrupt_takes_buffer(m, c) ==
    LET m1 == idr_write(m, c, AllSources)
        m2 == psr_get(m1, c)
        channel == m1.psr[c]
        m3 == IF m2.client[c] # <<>> THEN transfer_done(m2, c, channel) ELSE m2
    IN  [m3 EXCEPT !.buffer[c] = <<>>]

\* handle_interrupt() masking the two error sources only.
handle_interrupt_leaves_trc(m, c) ==
    LET m1 == idr_write(m, c, {TERR, RCZ})
        m2 == psr_get(m1, c)
        channel == m1.psr[c]
    IN  IF m2.client[c] # <<>> THEN transfer_done(m2, c, channel) ELSE m2

\* handle_interrupt() unwrapping the client instead of mapping over it.
handle_interrupt_unwraps(m, c) ==
    LET m1 == idr_write(m, c, AllSources)
        m2 == psr_get(m1, c)
        channel == m1.psr[c]
    IN  IF m2.client[c] # <<>>
        THEN transfer_done(m2, c, channel)
        ELSE [m2 EXCEPT !.panicked = TRUE]

handle_interrupt(m, c) ==
    LET m1 == idr_write(m, c, AllSources)
        m2 == psr_get(m1, c)
        channel == m1.psr[c]
    IN  IF m2.client[c] # <<>> THEN transfer_done(m2, c, channel) ELSE m2

start_transfer(m, c) == cr_write(m, c, "TEN")

\* prepare_transfer() enabling all three interrupt sources.
prepare_transfer_all_sources(m, c, pid, buf, len0) ==
    LET maxlen == BufLen(buf) \div ElemSize(m.width[c])
        len == Min(len0, maxlen)
        m1 == mr_write(m, c, WidthCode(m.width[c]))
        m2 == psr_set(m1, c, pid)
    IN  IF BufLen(buf) = 0
        THEN [m2 EXCEPT !.panicked = TRUE]
        ELSE LET m3 == marr_write(m2, c, BufAddr(buf))
                 m4 == tcrr_write(m3, c, TCV_val(len))
                 m5 == ier_write(m4, c, AllSources)
             IN  [m5 EXCEPT !.buffer[c] = <<buf>>]

\* prepare_transfer() keeping the buffer the slot already holds.
prepare_transfer_keeps_first(m, c, pid, buf, len0) ==
    LET maxlen == BufLen(buf) \div ElemSize(m.width[c])
        len == Min(len0, maxlen)
        m1 == mr_write(m, c, WidthCode(m.width[c]))
        m2 == psr_set(m1, c, pid)
    IN  IF BufLen(buf) = 0
        THEN [m2 EXCEPT !.panicked = TRUE]
        ELSE LET m3 == marr_write(m2, c, BufAddr(buf))
                 m4 == tcrr_write(m3, c, TCV_val(len))
                 m5 == ier_write(m4, c, {TRC})
             IN  IF m5.buffer[c] = <<>> THEN [m5 EXCEPT !.buffer[c] = <<buf>>] ELSE m5

\* prepare_transfer() programming the requested length as it was given.
prepare_transfer_unclamped(m, c, pid, buf, len0) ==
    LET len == len0
        m1 == mr_write(m, c, WidthCode(m.width[c]))
        m2 == psr_set(m1, c, pid)
    IN  IF BufLen(buf) = 0
        THEN [m2 EXCEPT !.panicked = TRUE]
        ELSE LET m3 == marr_write(m2, c, BufAddr(buf))
                 m4 == tcrr_write(m3, c, TCV_val(len))
                 m5 == ier_write(m4, c, {TRC})
             IN  [m5 EXCEPT !.buffer[c] = <<buf>>]

prepare_transfer(m, c, pid, buf, len0) ==
    LET maxlen == BufLen(buf) \div ElemSize(m.width[c])
        len == Min(len0, maxlen)
        m1 == mr_write(m, c, WidthCode(m.width[c]))
        m2 == psr_set(m1, c, pid)
    IN  IF BufLen(buf) = 0
        THEN [m2 EXCEPT !.panicked = TRUE]
        ELSE LET m3 == marr_write(m2, c, BufAddr(buf))
                 m4 == tcrr_write(m3, c, TCV_val(len))
                 m5 == ier_write(m4, c, {TRC})
             IN  [m5 EXCEPT !.buffer[c] = <<buf>>]

do_transfer(m, c, pid, buf, len) ==
    LET m1 == prepare_transfer(m, c, pid, buf, len)
    IN  IF m1.panicked THEN m1 ELSE start_transfer(m1, c)

\* abort_transfer() returning the buffer without emptying the slot.
abort_transfer_keeps_buffer(m, c) ==
    LET m1 == idr_write(m, c, AllSources)
        m2 == tcr_write(m1, c, TCV_val(0))
    IN  [m2 EXCEPT !.ret = m2.buffer[c]]

\* abort_transfer() leaving the hardware transfer counter alone.
abort_transfer_keeps_counter(m, c) ==
    LET m1 == idr_write(m, c, AllSources)
    IN  [m1 EXCEPT !.buffer[c] = <<>>, !.ret = m1.buffer[c]]

\* abort_transfer() without the write to the interrupt disable register.
abort_transfer_keeps_mask(m, c) ==
    LET m2 == tcr_write(m, c, TCV_val(0))
    IN  [m2 EXCEPT !.buffer[c] = <<>>, !.ret = m2.buffer[c]]

abort_transfer(m, c) ==
    LET m1 == idr_write(m, c, AllSources)
        m2 == tcr_write(m1, c, TCV_val(0))
    IN  [m2 EXCEPT !.buffer[c] = <<>>, !.ret = m2.buffer[c]]

transfer_counter(m, c) == [m EXCEPT !.ret = <<m.tcr[c]>>]

-----------------------------------------------------------------------------
\* The state machine: each action is one complete call.

Commit(m) ==
    /\ client' = m.client
    /\ width' = m.width
    /\ enabled' = m.enabled
    /\ buffer' = m.buffer
    /\ NUM_ENABLED' = m.NUM_ENABLED
    /\ clock' = m.clock
    /\ mr' = m.mr
    /\ psr' = m.psr
    /\ marr' = m.marr
    /\ tcrr' = m.tcrr
    /\ tcr' = m.tcr
    /\ cr' = m.cr
    /\ imr' = m.imr
    /\ panicked' = m.panicked

\* No call is in progress.
Idle == [pc |-> "idle", ch |-> 0, num_enabled |-> 0, preempted |-> FALSE]

\* new(): no client, Width8Bit, not enabled, empty slot; the static counter
\* is 0; the hardware is in its reset state, clocks off, all sources masked.
InitWith(pool) ==
    /\ client = [c \in Channels |-> <<>>]
    /\ width = [c \in Channels |-> "Width8Bit"]
    /\ enabled = [c \in Channels |-> FALSE]
    /\ buffer = [c \in Channels |-> <<>>]
    /\ NUM_ENABLED = 0
    /\ clock = {}
    /\ mr = [c \in Channels |-> 0]
    /\ psr = [c \in Channels |-> 0]
    /\ marr = [c \in Channels |-> 0]
    /\ tcrr = [c \in Channels |-> 0]
    /\ tcr = [c \in Channels |-> 0]
    /\ cr = [c \in Channels |-> <<>>]
    /\ imr = [c \in Channels |-> {}]
    /\ panicked = FALSE
    /\ owned = pool
    /\ lastPid = [c \in Channels |-> <<>>]
    /\ fresh = [c \in Channels |-> <<>>]
    /\ reported = [c \in Channels |-> FALSE]
    /\ frame = Idle

Init == InitWith(Buffers)

InitTwoBuffers == InitWith(TwoBuffers)

\* The call whose outcome is m has called the client.
Called(m) == \E i \in 1 .. Len(m.trace) : m.trace[i].kind = "transfer_done"

\* A call on channel c other than prepare_transfer ends the channel's
\* "just prepared" condition.
Stale(c) == fresh' = [fresh EXCEPT ![c] = <<>>]

Initialize(c) ==
    /\ ~panicked
    /\ c \in XferChannels
    /\ \E cl \in Clients, w \in Widths :
          Commit(initialize(Cur, c, cl, w))
    /\ Stale(c)
    /\ UNCHANGED <<owned, lastPid, reported, frame>>

Enable(c) ==
    /\ ~panicked
    /\ Commit(enable(Cur, c))
    /\ Stale(c)
    /\ UNCHANGED <<owned, lastPid, reported, frame>>

Disable(c) ==
    /\ ~panicked
    /\ Commit(disable(Cur, c))
    /\ Stale(c)
    /\ UNCHANGED <<owned, lastPid, reported, frame>>

HandleInterrupt(c) ==
    /\ ~panicked
    /\ Commit(handle_interrupt(Cur, c))
    /\ Stale(c)
    /\ reported' = [reported EXCEPT ![c] =
                       @ \/ (TRC \in imr[c] /\ Called(handle_interrupt(Cur, c)))]
    /\ UNCHANGED <<owned, lastPid, frame>>

StartTransfer(c) ==
    /\ ~panicked
    /\ c \in XferChannels
    /\ Commit(start_transfer(Cur, c))
    /\ Stale(c)
    /\ UNCHANGED <<owned, lastPid, reported, frame>>

\* The caller gives up a buffer it owns (&'static mut).
PrepareTransfer(c) ==
    /\ ~panicked
    /\ c \in XferChannels
    /\ \E pid \in Peripherals, buf \in owned, len \in ReqLens :
          /\ Commit(prepare_transfer(Cur, c, pid, buf, len))
          /\ owned' = owned \ {buf}
          /\ lastPid' = [lastPid EXCEPT ![c] = <<pid>>]
          /\ fresh' = [fresh EXCEPT ![c] = IF panicked' THEN <<>> ELSE <<buf>>]
    /\ reported' = [reported EXCEPT ![c] = FALSE]
    /\ UNCHANGED frame

DoTransfer(c) ==
    /\ ~panicked
    /\ c \in XferChannels
    /\ \E pid \in Peripherals, buf \in owned, len \in ReqLens :
          /\ Commit(do_transfer(Cur, c, pid, buf, len))
          /\ owned' = owned \ {buf}
          /\ lastPid' = [lastPid EXCEPT ![c] = <<pid>>]
          /\ Stale(c)
    /\ reported' = [reported EXCEPT ![c] = FALSE]
    /\ UNCHANGED frame

\* The caller owns again whatever buffer the call returns.
AbortTransfer(c) ==
    /\ ~panicked
    /\ Commit(abort_transfer(Cur, c))
    /\ owned' = owned \cup Some(abort_transfer(Cur, c).ret)
    /\ Stale(c)
    /\ UNCHANGED <<lastPid, reported, frame>>

\* The controller moves data on a channel that has a count programmed and
\* whose last command enabled it: the live counter is the hardware's to change.
HwCount(c) ==
    /\ ~panicked
    /\ cr[c] = <<"TEN">>
    /\ tcrr[c] > 0
    /\ \E v \in 0 .. Min(MaxTcr, tcrr[c]) : v # tcr[c] /\ tcr' = [tcr EXCEPT ![c] = v]
    /\ UNCHANGED <<client, width, enabled, buffer, NUM_ENABLED, clock, mr, psr, marr,
                   tcrr, cr, imr, panicked, owned, lastPid, fresh, reported, frame>>

Next ==
    \E c \in Channels :
        \/ Initialize(c)
        \/ Enable(c)
        \/ Disable(c)
        \/ HandleInterrupt(c)
        \/ StartTransfer(c)
        \/ PrepareTransfer(c)
        \/ DoTransfer(c)
        \/ AbortTransfer(c)
        \/ HwCount(c)

Spec == Init /\ [][Next]_vars

SpecTwoBuffers == InitTwoBuffers /\ [][Next]_vars

-----------------------------------------------------------------------------
\* Reading a trace.

\* The events of a trace of one kind, in order.
Events(tr, kind) == SelectSeq(tr, LAMBDA e : e.kind = kind)

\* How many times a clock call with this domain occurs in a trace.
ClockCalls(tr, kind, clk) ==
    Cardinality({i \in 1 .. Len(tr) : tr[i].kind = kind /\ tr[i].arg = clk})

EnabledChannels == {c \in Channels : enabled[c]}

-----------------------------------------------------------------------------
-----------------------------------------------------------------------------
\* C1: between calls, the shared counter NUM_ENABLED equals the number of
\* channels whose enabled flag is true, and it has not wrapped below 0.
C1_CounterCountsEnabled ==
    /\ NUM_ENABLED = Cardinality(EnabledChannels)
    /\ NUM_ENABLED >= 0

\* A disable() has acted on one channel while another stays enabled, and the
\* counter is 1.
C1_Witness ==
    /\ NUM_ENABLED = 1
    /\ \E c \in Channels : ~enabled[c] /\ cr[c] = <<"TDIS">>
    /\ \E d \in Channels : enabled[d]

\* C2: from every reachable state, a disable() of an enabled channel while
\* another channel is enabled makes no disable_clock call and leaves both
\* clock domains as they were; a disable() of the last enabled channel takes
\* the counter from 1 to 0 and calls disable_clock exactly once for HSB PDCA
\* and exactly once for PBB PDCA, leaving both off.
C2_ClocksOffOnlyWithLast ==
    \A c \in Channels :
        (~panicked /\ enabled[c]) =>
            LET m == disable(Cur, c)
            IN  IF \E d \in Channels \ {c} : enabled[d]
                THEN /\ m.clock = clock
                     /\ Events(m.trace, "disable_clock") = <<>>
                     /\ m.NUM_ENABLED >= 1
                ELSE /\ NUM_ENABLED = 1 /\ m.NUM_ENABLED = 0
                     /\ ClockCalls(m.trace, "disable_clock", HSB_PDCA) = 1
                     /\ ClockCalls(m.trace, "disable_clock", PBB_PDCA) = 1
                     /\ m.clock = {}

\* Every channel has been enabled and then disabled: the counter is back at
\* 0 and both clock domains are off.
C2_Witness ==
    /\ NUM_ENABLED = 0
    /\ clock = {}
    /\ \A c \in Channels : ~enabled[c] /\ cr[c] = <<"TDIS">>

\* C3 (as claimed): for every width, every buffer and every requested count,
\* prepare_transfer returns and leaves min(R, floor(L / elem_size)) in the
\* transfer counter reload register.
C3_ReloadIsMin ==
    \A c \in XferChannels, pid \in Peripherals, buf \in owned, len \in ReqLens :
        ~panicked =>
            LET m == prepare_transfer(Cur, c, pid, buf, len)
            IN  /\ ~m.panicked
                /\ m.tcrr[c] = Min(len, BufLen(buf) \div ElemSize(width[c]))

\* C4: an abort_transfer() that follows a prepare_transfer(p, b, n) on its
\* channel with no other call on that channel in between returns exactly b
\* and leaves the slot empty, so that a second abort_transfer() returns None.
C4_AbortReturnsPrepared ==
    \A c \in Channels :
        (~panicked /\ fresh[c] # <<>>) =>
            LET m == abort_transfer(Cur, c)
            IN  /\ m.ret = fresh[c]
                /\ m.buffer[c] = <<>>
                /\ abort_transfer(m, c).ret = <<>>

\* A channel was prepared and never started, its slot is empty and the
\* callers own every buffer again: the buffer came back through abort.
C4_Witness ==
    /\ ~panicked
    /\ owned = Buffers
    /\ \E c \in Channels :
          lastPid[c] # <<>> /\ cr[c] = <<>> /\ buffer[c] = <<>> /\ imr[c] = {}

\* C5: in every reachable state the transfer-error and reload-counter-zero
\* sources of every channel are masked, and a prepare_transfer that returns
\* leaves transfer-complete as the channel's only unmasked source.
C5_OnlyTRCUnmasked ==
    /\ \A c \in Channels : TERR \notin imr[c] /\ RCZ \notin imr[c]
    /\ \A c \in XferChannels, pid \in Peripherals, buf \in owned, len \in ReqLens :
          ~panicked =>
              LET m == prepare_transfer(Cur, c, pid, buf, len)
              IN  ~m.panicked => m.imr[c] = {TRC}

\* A channel has just been prepared: transfer-complete alone is unmasked.
C5_Witness == \E c \in Channels : fresh[c] # <<>> /\ imr[c] = {TRC}

\* C6: once prepare_transfer has been called on a channel, the peripheral
\* select register holds the pid of the latest such call whatever was called
\* since, and a handle_interrupt() with a registered client passes exactly
\* that pid to transfer_done, once.
C6_ReportsLatestPid ==
    \A c \in Channels :
        lastPid[c] # <<>> =>
            /\ psr[c] = lastPid[c][1]
            /\ (~panicked /\ client[c] # <<>>) =>
                  LET done == Events(handle_interrupt(Cur, c).trace, "transfer_done")
                  IN  Len(done) = 1 /\ done[1].arg = lastPid[c][1]

\* A transfer to SPI_TX was prepared and started on an enabled channel with
\* a client, and its completion is reported.
C6_Witness ==
    \E c \in Channels :
        /\ client[c] # <<>>
        /\ lastPid[c] = <<SPI_TX>>
        /\ enabled[c]
        /\ cr[c] = <<"TEN">>
        /\ TRC \in imr[c]
        /\ Events(handle_interrupt(Cur, c).trace, "transfer_done") # <<>>

\* C7: in every handle_interrupt(), the first effect is the write that masks
\* all three sources; the read of the peripheral select register and the
\* callback come after it and see all three sources masked.
C7_MaskFirst ==
    \A c \in Channels :
        ~panicked =>
            LET tr == handle_interrupt(Cur, c).trace
            IN  /\ tr # <<>>
                /\ tr[1].kind = "idr" /\ tr[1].arg = AllSources
                /\ \E i \in 1 .. Len(tr) : tr[i].kind = "psr_get"
                /\ \A i \in 1 .. Len(tr) :
                      tr[i].kind \in {"psr_get", "transfer_done"} =>
                          i > 1 /\ tr[i].imr = {}

\* An interrupt is pending on a started channel with a client: handling it
\* finds transfer-complete unmasked and calls the client.
C7_Witness ==
    \E c \in Channels :
        /\ TRC \in imr[c]
        /\ cr[c] = <<"TEN">>
        /\ client[c] # <<>>
        /\ Len(handle_interrupt(Cur, c).trace) = 3
        /\ handle_interrupt(Cur, c).imr[c] = {}

\* C8: an enable() of a channel whose flag is true leaves the counter, the
\* flag (is_enabled() is true) and the channel's interrupt mask as they were;
\* two consecutive enable() calls on a channel whose flag is false raise the
\* counter by exactly one.
C8_EnableIdempotent ==
    \A c \in Channels :
        ~panicked =>
            /\ enabled[c] =>
                  LET m == enable(Cur, c)
                  IN  /\ m.NUM_ENABLED = NUM_ENABLED
                      /\ is_enabled(m, c).ret = <<TRUE>>
                      /\ m.imr[c] = imr[c]
            /\ ~enabled[c] =>
                  LET m == enable(enable(Cur, c), c)
                  IN  /\ m.NUM_ENABLED = NUM_ENABLED + 1
                      /\ is_enabled(m, c).ret = <<TRUE>>

\* An enabled channel with transfer-complete unmasked, while all channels
\* are enabled: a further enable() leaves the mask and the counter alone.
C8_Witness ==
    \E c \in Channels :
        /\ enabled[c]
        /\ imr[c] = {TRC}
        /\ NUM_ENABLED = NumChannels
        /\ enable(Cur, c).imr[c] = {TRC}
        /\ enable(Cur, c).NUM_ENABLED = NumChannels

\* C9: a disable() of a channel whose flag is false changes nothing: the
\* counter, the clock domains, the control register (no command is written),
\* the flags and the buffer slots stay as they were; two consecutive
\* disable() calls on an enabled channel lower the counter by exactly one.
C9_DisableNoOp ==
    \A c \in Channels :
        ~panicked =>
            /\ ~enabled[c] =>
                  LET m == disable(Cur, c)
                  IN  /\ m.NUM_ENABLED = NUM_ENABLED
                      /\ m.clock = clock
                      /\ m.cr = cr
                      /\ m.trace = <<>>
                      /\ m.enabled = enabled
                      /\ m.buffer = buffer
            /\ enabled[c] =>
                  disable(disable(Cur, c), c).NUM_ENABLED = NUM_ENABLED - 1

\* A channel that is not enabled holds a buffer and was started, while
\* another channel keeps the clocks on: disabling it again changes nothing.
C9_Witness ==
    \E c \in Channels :
        /\ ~enabled[c]
        /\ buffer[c] # <<>>
        /\ cr[c] = <<"TEN">>
        /\ NUM_ENABLED = 1
        /\ clock = BothClocks
        /\ disable(Cur, c).cr[c] = <<"TEN">>
        /\ disable(Cur, c).clock = BothClocks

\* A call's outcome leaves every slot as it is and returns nothing.
KeepsSlots(m) == m.buffer = buffer /\ m.ret = <<>>

-----------------------------------------------------------------------------
\* enable() and disable() statement by statement.  A call made in normal
\* context advances one statement per step; between any two of its statements
\* an interrupt may run a complete enable() or disable() of another channel.

Ghosts == <<owned, lastPid, fresh, reported>>

Goto(pc) == frame' = [frame EXCEPT !.pc = pc]

Return == frame' = [Idle EXCEPT !.preempted = frame.preempted]

At(c, pc) == frame.pc = pc /\ frame.ch = c

CallEnable(c) ==
    /\ frame.pc = "idle"
    /\ frame' = [Idle EXCEPT !.pc = "enable_hsb", !.ch = c]
    /\ Commit(Cur)
    /\ UNCHANGED Ghosts

EnableClockHSB(c) ==
    /\ At(c, "enable_hsb")
    /\ Commit(enable_clock(Cur, c, HSB_PDCA))
    /\ Goto("enable_pbb")
    /\ UNCHANGED Ghosts

EnableClockPBB(c) ==
    /\ At(c, "enable_pbb")
    /\ Commit(enable_clock(Cur, c, PBB_PDCA))
    /\ Goto("enable_test")
    /\ UNCHANGED Ghosts

EnableTest(c) ==
    /\ At(c, "enable_test")
    /\ Commit(Cur)
    /\ IF ~enabled[c] THEN Goto("enable_fetch_add") ELSE Return
    /\ UNCHANGED Ghosts

\* The counter's increment as a load and a later store.
EnableFetchAdd_load_store(c) ==
    \/ /\ At(c, "enable_fetch_add")
       /\ Commit(Cur)
       /\ frame' = [frame EXCEPT !.pc = "enable_store", !.num_enabled = NUM_ENABLED]
       /\ UNCHANGED Ghosts
    \/ /\ At(c, "enable_store")
       /\ Commit([Cur EXCEPT !.NUM_ENABLED = frame.num_enabled + 1])
       /\ frame' = [frame EXCEPT !.pc = "enable_idr", !.num_enabled = 0]
       /\ UNCHANGED Ghosts

EnableFetchAdd(c) ==
    /\ At(c, "enable_fetch_add")
    /\ Commit(fetch_add(Cur, 1))
    /\ Goto("enable_idr")
    /\ UNCHANGED Ghosts

EnableMask(c) ==
    /\ At(c, "enable_idr")
    /\ Commit(idr_write(Cur, c, AllSources))
    /\ Goto("enable_set")
    /\ UNCHANGED Ghosts

EnableSetFlag(c) ==
    /\ At(c, "enable_set")
    /\ Commit(set_enabled(Cur, c, TRUE))
    /\ Return
    /\ UNCHANGED Ghosts

CallDisable(c) ==
    /\ frame.pc = "idle"
    /\ frame' = [Idle EXCEPT !.pc = "disable_test", !.ch = c]
    /\ Commit(Cur)
    /\ UNCHANGED Ghosts

DisableTest(c) ==
    /\ At(c, "disable_test")
    /\ Commit(Cur)
    /\ IF enabled[c] THEN Goto("disable_fetch_sub") ELSE Return
    /\ UNCHANGED Ghosts

DisableFetchSub(c) ==
    /\ At(c, "disable_fetch_sub")
    /\ Commit(fetch_sub(Cur, 1))
    /\ frame' = [frame EXCEPT !.pc = "disable_test_last", !.num_enabled = NUM_ENABLED]
    /\ UNCHANGED Ghosts

DisableTestLast(c) ==
    /\ At(c, "disable_test_last")
    /\ Commit(Cur)
    /\ IF frame.num_enabled = 1 THEN Goto("disable_hsb") ELSE Goto("disable_cr")
    /\ UNCHANGED Ghosts

DisableClockHSB(c) ==
    /\ At(c, "disable_hsb")
    /\ Commit(disable_clock(Cur, c, HSB_PDCA))
    /\ Goto("disable_pbb")
    /\ UNCHANGED Ghosts

DisableClockPBB(c) ==
    /\ At(c, "disable_pbb")
    /\ Commit(disable_clock(Cur, c, PBB_PDCA))
    /\ Goto("disable_cr")
    /\ UNCHANGED Ghosts

DisableStop(c) ==
    /\ At(c, "disable_cr")
    /\ Commit(cr_write(Cur, c, "TDIS"))
    /\ Goto("disable_set")
    /\ UNCHANGED Ghosts

DisableClearFlag(c) ==
    /\ At(c, "disable_set")
    /\ Commit(set_enabled(Cur, c, FALSE))
    /\ Return
    /\ UNCHANGED Ghosts

\* An interrupt handler may call into any channel but the one whose call it
\* has interrupted.
Preempts(d) ==
    /\ frame.pc # "idle" => d # frame.ch
    /\ frame' = [frame EXCEPT !.preempted = @ \/ frame.pc # "idle"]

IrqEnable(d) ==
    /\ Preempts(d)
    /\ Commit(enable(Cur, d))
    /\ UNCHANGED Ghosts

IrqDisable(d) ==
    /\ Preempts(d)
    /\ Commit(disable(Cur, d))
    /\ UNCHANGED Ghosts

NextPreempt ==
    \E c \in Channels :
        \/ CallEnable(c)
        \/ EnableClockHSB(c)
        \/ EnableClockPBB(c)
        \/ EnableTest(c)
        \/ EnableFetchAdd(c)
        \/ EnableMask(c)
        \/ EnableSetFlag(c)
        \/ CallDisable(c)
        \/ DisableTest(c)
        \/ DisableFetchSub(c)
        \/ DisableTestLast(c)
        \/ DisableClockHSB(c)
        \/ DisableClockPBB(c)
        \/ DisableStop(c)
        \/ DisableClearFlag(c)
        \/ IrqEnable(c)
        \/ IrqDisable(c)

SpecPreempt == Init /\ [][NextPreempt]_vars

\* The counter updates a call in progress has made ahead of its flag.
Pending ==
    IF frame.pc \in {"enable_idr", "enable_set"} THEN 1
    ELSE IF frame.pc \in {"disable_test_last", "disable_hsb", "disable_pbb",
                          "disable_cr", "disable_set"} THEN -1
    ELSE 0

-----------------------------------------------------------------------------
\* C11: only prepare_transfer re-arms a channel's interrupts.  The transfer
\* complete source goes from masked to unmasked only in a step that is a
\* prepare_transfer on that channel; handle_interrupt and abort_transfer leave
\* it masked, and enable, disable, start_transfer and transfer_counter leave a
\* masked source masked (a prepare_transfer step is the one in which a caller
\* hands a buffer over to the channel's slot).  Hence once a handle_interrupt dispatched while the
\* source was unmasked has called the client, the source stays masked until
\* the next prepare_transfer, and a dispatcher that invokes handle_interrupt
\* only while the source is unmasked produces at most one callback per
\* prepare_transfer.
C11_OnlyPrepareRearms ==
    /\ [](\A c \in Channels :
            /\ reported[c] => TRC \notin imr[c]
            /\ TRC \notin handle_interrupt(Cur, c).imr[c]
            /\ TRC \notin abort_transfer(Cur, c).imr[c]
            /\ TRC \notin imr[c] =>
                   /\ TRC \notin enable(Cur, c).imr[c]
                   /\ TRC \notin disable(Cur, c).imr[c]
                   /\ TRC \notin start_transfer(Cur, c).imr[c]
                   /\ TRC \notin transfer_counter(Cur, c).imr[c])
    /\ [][\A c \in Channels :
             (TRC \notin imr[c] /\ TRC \in imr'[c]) =>
                 /\ \E buf \in owned : owned' = owned \ {buf} /\ buffer'[c] = <<buf>>
                 /\ ~reported'[c]]_vars

\* A callback has been delivered for the latest prepare_transfer, the channel
\* has since been started again and is enabled, and the source is still masked.
C11_Witness ==
    \E c \in Channels :
        /\ reported[c] /\ fresh[c] = <<>> /\ buffer[c] # <<>>
        /\ enabled[c] /\ cr[c] = <<"TEN">>
        /\ TRC \notin imr[c]

-----------------------------------------------------------------------------
\* C12: handle_interrupt on a channel that has no client (initialize was never
\* called) drops the completion: the client is not called and the call does
\* not panic, the three interrupt sources are masked after it, and the
\* enabled flag, the shared counter and the buffer slot are unchanged.
C12_NoClientDropsCompletion ==
    \A c \in Channels :
        client[c] = <<>> =>
            LET m == handle_interrupt(Cur, c)
            IN  /\ ~Called(m)
                /\ m.panicked = panicked
                /\ m.imr[c] = {}
                /\ m.enabled = enabled
                /\ m.NUM_ENABLED = NUM_ENABLED
                /\ m.buffer = buffer

\* A transfer is armed on an enabled channel that has no client, and
\* handle_interrupt masks the sources without calling anyone.
C12_Witness ==
    \E c \in Channels :
        /\ client[c] = <<>> /\ enabled[c] /\ ~panicked
        /\ TRC \in imr[c] /\ buffer[c] # <<>>
        /\ handle_interrupt(Cur, c).imr[c] = {}
        /\ Events(handle_interrupt(Cur, c).trace, "psr_get") # <<>>

-----------------------------------------------------------------------------
\* C13: abort_transfer on a channel whose slot is empty returns None and sets
\* the channel's transfer counter to 0, and changes nothing else: the
\* interrupt mask, the peripheral select, the reload registers, the mode and
\* control registers, the enabled flags, the shared counter, the clocks, the
\* slots and the other channels' counters are as before the call.
C13_AbortOnEmptySlot ==
    \A c \in Channels :
        buffer[c] = <<>> =>
            LET m == abort_transfer(Cur, c)
            IN  /\ m.ret = <<>>
                /\ m.tcr[c] = 0
                /\ \A d \in Channels \ {c} : m.tcr[d] = tcr[d]
                /\ m.imr = imr /\ m.psr = psr
                /\ m.tcrr = tcrr /\ m.marr = marr
                /\ m.mr = mr /\ m.cr = cr
                /\ m.enabled = enabled /\ m.NUM_ENABLED = NUM_ENABLED
                /\ m.clock = clock /\ m.buffer = buffer
                /\ m.client = client /\ m.width = width
                /\ m.panicked = panicked

\* The slot is empty while the hardware counter is not 0, and abort_transfer
\* zeroes the counter.
C13_Witness ==
    \E c \in Channels :
        /\ buffer[c] = <<>> /\ tcr[c] > 0 /\ ~panicked
        /\ abort_transfer(Cur, c).tcr[c] = 0
        /\ abort_transfer(Cur, c).ret = <<>>

-----------------------------------------------------------------------------
\* C14: the counter is updated by one atomic read-modify-write, so no update
\* is lost when an enable or disable in normal context is preempted, between
\* any two of its statements, by complete enable or disable calls of another
\* channel: whenever no call is in progress the counter equals the number of
\* channels whose enabled flag is true, and inside a call it differs from that
\* number by exactly the one update the call has made ahead of its flag.
C14_NoLostUpdate ==
    /\ NUM_ENABLED = Cardinality(EnabledChannels) + Pending
    /\ frame.pc = "idle" => NUM_ENABLED = Cardinality(EnabledChannels)

\* A call that an interrupt preempted has returned, and both the channel of
\* the call and another channel are enabled.
C14_Witness ==
    /\ frame.pc = "idle" /\ frame.preempted
    /\ Cardinality(EnabledChannels) = 2
    /\ NUM_ENABLED = 2

-----------------------------------------------------------------------------
\* C15: a slot holds at most one buffer.  A prepare_transfer on a channel whose
\* slot is occupied puts the new buffer in the slot and returns nothing; the
\* abort_transfer after it returns the new buffer and a second one returns
\* None.  A buffer that neither a caller nor a slot holds (the one that was
\* replaced) is never returned to a caller by any later step.
C15_OverwriteLosesPrevious ==
    /\ [](\A c \in Channels :
            /\ Len(buffer[c]) <= 1
            /\ buffer[c] # <<>> =>
                 \A pid \in Peripherals, buf \in owned, len \in ReqLens :
                    LET m == prepare_transfer(Cur, c, pid, buf, len)
                    IN  ~m.panicked =>
                           /\ m.buffer[c] = <<buf>>
                           /\ m.ret = <<>>
                           /\ abort_transfer(m, c).ret = <<buf>>
                           /\ abort_transfer(abort_transfer(m, c), c).ret = <<>>)
    /\ [][\A b \in Buffers \cup TwoBuffers :
             (b \notin owned /\ \A c \in Channels : buffer[c] # <<b>>)
                 => b \notin owned']_vars

\* One of the two buffers was replaced in the slot by the other, which an
\* abort_transfer has since returned: the caller owns one buffer, no slot
\* holds the other.
C15_Witness ==
    \E b \in TwoBuffers :
        /\ owned = TwoBuffers \ {b}
        /\ \A c \in Channels : buffer[c] = <<>>
        /\ ~panicked

-----------------------------------------------------------------------------
\* C16: every enable() that finds the channel's flag false returns with all
\* three interrupt sources of the channel masked and the flag true, whatever
\* the mask was before, in particular when a prepare_transfer followed by a
\* disable() had left transfer complete unmasked.
C16_EnableMasksAll ==
    \A c \in Channels :
        ~enabled[c] =>
            /\ enable(Cur, c).imr[c] = {}
            /\ enable(Cur, c).enabled[c]

\* A channel that was disabled with transfer complete unmasked is enabled.
C16_Witness ==
    \E c \in Channels :
        /\ ~enabled[c] /\ cr[c] = <<"TDIS">> /\ ~panicked
        /\ TRC \in imr[c]
        /\ enable(Cur, c).imr[c] = {}

-----------------------------------------------------------------------------
\* C17: the transfer a prepare_transfer programs never exceeds the buffer.  For
\* every width, buffer and requested length, a prepare_transfer that returns
\* leaves in the transfer counter reload register a value that, multiplied by
\* the element size, is at most the byte length of the buffer, and that is
\* below 2^16, also when the clamped length does not fit the 16-bit field.
C17_ReloadWithinBuffer ==
    \A c \in Channels, pid \in Peripherals, buf \in owned, len \in ReqLens :
        LET m == prepare_transfer(Cur, c, pid, buf, len)
        IN  ~m.panicked =>
               /\ m.tcrr[c] * ElemSize(m.width[c]) <= BufLen(buf)
               /\ m.tcrr[c] < 2 ^ TCV_BITS

\* A prepare_transfer of 70000 bytes from the 65540-byte buffer has just
\* returned: the clamped length 65540 is held as 4.
C17_Witness ==
    \E c \in Channels :
        /\ fresh[c] = <<1>> /\ width[c] = "Width8Bit" /\ ~panicked
        /\ Min(70000, BufLen(1)) >= 2 ^ TCV_BITS
        /\ tcrr[c] = 4

-----------------------------------------------------------------------------
\* C18: with enable and disable in normal context preempted at any statement
\* by an enable or disable of another channel, the shared clock is multiplexed
\* correctly: in every state where no enable or disable call is in progress
\* and some channel's enabled flag is true, both clock domains are on.
C18_ClocksOnWhileEnabled ==
    (frame.pc = "idle" /\ EnabledChannels # {}) => clock = BothClocks

-----------------------------------------------------------------------------
\* C19: every disable() that acts (the flag is true) writes the transfer
\* disable command to the channel's control register, once, at a moment when
\* both clock domains are on, also when the channel is the last enabled one
\* and the same call turns the clocks off.
C19_StopsWhileClocked ==
    \A c \in Channels :
        (~panicked /\ enabled[c]) =>
            LET stops == Events(disable(Cur, c).trace, "cr")
            IN  /\ Len(stops) = 1
                /\ stops[1].arg = "TDIS"
                /\ stops[1].clk = BothClocks

-----------------------------------------------------------------------------
\* C20: in every state between calls, reached from the initial state by any
\* sequence of the driver's operations, a channel whose transfer complete
\* source is unmasked has a buffer in its slot.
C20_ArmedImpliesBuffer ==
    \A c \in Channels : TRC \in imr[c] => buffer[c] # <<>>

\* A transfer is armed and started on an enabled channel, and its buffer is
\* in the slot; an abort_transfer would mask the source and empty the slot.
C20_Witness ==
    \E c \in Channels :
        /\ TRC \in imr[c] /\ buffer[c] # <<>> /\ ~panicked
        /\ enabled[c] /\ cr[c] = <<"TEN">>
        /\ abort_transfer(Cur, c).buffer[c] = <<>>
        /\ TRC \notin abort_transfer(Cur, c).imr[c]

=============================================================================
